---- MODULE Spec2Model ----
(***************************************************************************)
(* Model of the Clipster backend (src/app.py): the /download handler       *)
(* (probe, fetch, verify, respond), the /file/{filename} handler and the   *)
(* download directory they share.                                          *)
(*                                                                         *)
(* The media extractor (yt_dlp) is an external collaborator: each of its   *)
(* two calls is a nondeterministic choice over what it can do (return an   *)
(* info dict, raise DownloadError with some message, raise another         *)
(* exception; write a file or not).                                        *)
(*                                                                         *)
(* Text is modelled at word granularity: a message is a sequence of words, *)
(* `x in s` is "the words of x occur consecutively in s", and str.lower()  *)
(* maps every word to its lower-case form.                                 *)
(***************************************************************************)
EXTENDS Integers, Sequences, FiniteSets, TLC

VARIABLES jobs, fileStore, nextId, lastFile

vars == <<jobs, fileStore, nextId, lastFile>>

(* ------------------------------ bounds --------------------------------- *)

\* number of /download requests of a run
NJobs == 2
\* number of fragments an extractor error message is assembled from
MaxParts == 3
\* largest whole-second duration the extractor reports
MaxDuration == 130

Jobs == 1..NJobs

(* ------------------------------- text ---------------------------------- *)

\* upper-case word |-> its lower-case form
CasePairs ==
    { <<"PRIVATE", "private">>, <<"VIDEO", "video">>, <<"SIGN", "sign">>,
      <<"IN", "in">>, <<"UNAVAILABLE", "unavailable">>, <<"LIVE", "live">>,
      <<"STREAM", "stream">>, <<"NOT", "not">>, <<"AVAILABLE", "available">>,
      <<"AGE-RESTRICTED", "age-restricted">> }

\* str.lower() on one word
LowerWord(w) ==
    IF \E p \in CasePairs : p[1] = w
    THEN (CHOOSE p \in CasePairs : p[1] = w)[2]
    ELSE w

\* str(e).lower()
Lower(s) == [i \in 1..Len(s) |-> LowerWord(s[i])]

\* `phrase in s`
Contains(s, phrase) ==
    \E i \in 1..(Len(s) - Len(phrase) + 1) :
        SubSeq(s, i, i + Len(phrase) - 1) = phrase

\* the pieces extractor messages are assembled from: the phrases the handler
\* looks for, in both letter cases, and parts of them
Fragments ==
    { <<"private", "video">>, <<"PRIVATE", "VIDEO">>,
      <<"sign", "in">>, <<"SIGN", "IN">>,
      <<"video", "unavailable">>, <<"VIDEO", "UNAVAILABLE">>,
      <<"live", "stream">>, <<"LIVE", "STREAM">>,
      <<"not", "available">>, <<"NOT", "AVAILABLE">>,
      <<"age-restricted">>, <<"AGE-RESTRICTED">>,
      <<"private">>, <<"video">>, <<"timeout">> }

RECURSIVE MessagesOf(_)
MessagesOf(n) ==
    IF n = 0 THEN { <<>> }
    ELSE LET shorter == MessagesOf(n - 1)
         IN  shorter \cup { m \o f : m \in shorter, f \in Fragments }

\* the messages a DownloadError of the extractor may carry
Messages == MessagesOf(MaxParts)

\* the messages used where several jobs run side by side
FewMessages == { <<"SIGN", "IN">> }

\* the message of an exception that is not a DownloadError
OtherMessages == { <<"connection", "reset">> }

\* ValueError of line 97 for a float duration
FormatErrorMessage == <<"Unknown", "format", "code", "d", "for", "float">>

(* ------------------------------ responses ------------------------------ *)

BASE_URL == "http://127.0.0.1:8000"

NoText == <<>>

NoResponse ==
    [status |-> 0, kind |-> "none", detail |-> NoText, id |-> 0,
     format |-> "", duration |-> NoText, downloadUrl |-> NoText]

\* JSONResponse({"error": ...}, status_code=status)
ErrorResponse(status, kind, detail) ==
    [NoResponse EXCEPT !.status = status, !.kind = kind, !.detail = detail]

\* the table applied to str(e) instead of str(e).lower()
ClassifyCaseSensitive(e) ==
    IF Contains(e, <<"private", "video">>) \/ Contains(e, <<"sign", "in">>)
    THEN ErrorResponse(400, "private", NoText)
    ELSE IF Contains(e, <<"video", "unavailable">>)
    THEN ErrorResponse(400, "unavailable", NoText)
    ELSE IF Contains(e, <<"live", "stream">>) /\ Contains(e, <<"not", "available">>)
    THEN ErrorResponse(400, "live", NoText)
    ELSE IF Contains(e, <<"age-restricted">>)
    THEN ErrorResponse(400, "age", NoText)
    ELSE ErrorResponse(400, "cannot_access", e)

\* the probe-stage table of lines 54-66
Classify(e) ==
    LET error_msg == Lower(e)
    IN  IF Contains(error_msg, <<"private", "video">>)
           \/ Contains(error_msg, <<"sign", "in">>)
        THEN ErrorResponse(400, "private", NoText)
        ELSE IF Contains(error_msg, <<"video", "unavailable">>)
        THEN ErrorResponse(400, "unavailable", NoText)
        ELSE IF Contains(error_msg, <<"live", "stream">>)
                /\ Contains(error_msg, <<"not", "available">>)
        THEN ErrorResponse(400, "live", NoText)
        ELSE IF Contains(error_msg, <<"age-restricted">>)
        THEN ErrorResponse(400, "age", NoText)
        ELSE ErrorResponse(400, "cannot_access", e)

\* the fetch stage reusing the probe-stage table
DownloadFailedClassified(e) ==
    LET r == Classify(e)
    IN  IF r.kind = "cannot_access" THEN ErrorResponse(500, "download_failed", e) ELSE r

\* line 72
DownloadFailed(e) == ErrorResponse(500, "download_failed", e)

\* line 85
FileMissing == ErrorResponse(500, "file_missing", NoText)

\* the catch-all answering as a client error
UnexpectedAsClientError(e) == ErrorResponse(400, "unexpected", e)

\* lines 103-105
Unexpected(e) == ErrorResponse(500, "unexpected", e)

(* ------------------------------ durations ------------------------------ *)

NoDuration == [kind |-> "none", v |-> 0]
IntDuration(d) == [kind |-> "int", v |-> d]
FloatDuration == [kind |-> "float", v |-> 1]

Digit(n) ==
    CASE n = 0 -> "0" [] n = 1 -> "1" [] n = 2 -> "2" [] n = 3 -> "3"
      [] n = 4 -> "4" [] n = 5 -> "5" [] n = 6 -> "6" [] n = 7 -> "7"
      [] n = 8 -> "8" [] n = 9 -> "9"

\* str(n) for n >= 0
RECURSIVE Str(_)
Str(n) == IF n < 10 THEN <<Digit(n)>> ELSE Str(n \div 10) \o <<Digit(n % 10)>>

\* f"{n:02d}" for n >= 0
Pad2(n) == IF n < 10 THEN <<"0">> \o Str(n) ELSE Str(n)

\* does Python take the duration as true in `if duration`
Truthy(duration) ==
    CASE duration.kind = "none" -> FALSE
      [] duration.kind = "int" -> duration.v # 0
      [] duration.kind = "float" -> TRUE

\* line 97, for a duration that is None or an int
FormatDuration(duration) ==
    IF Truthy(duration)
    THEN Str(duration.v \div 60) \o <<":">> \o Pad2(duration.v % 60)
    ELSE <<"Unknown">>

\* line 97 raises ValueError: format code 'd' on a float
FormatRaises(duration) == Truthy(duration) /\ duration.kind = "float"

(* ------------------------------ file store ----------------------------- *)

NoExt == "<absent>"
FileExts == { "mp4", "webm" }
NothingWritten == "<nothing>"

\* os.path.join(DOWNLOAD_DIR, f"{video_id}.{ext}") as a name inside the directory
FileName(id, ext) == <<id, ext>>

\* the entry ".." every directory has; no job has id 0
ParentDir == <<0, "..">>
DirEntries == { ParentDir }

\* the bytes the extractor downloads for request j
Payload(j) == j
NoData == 0

\* os.path.exists(os.path.join(DOWNLOAD_DIR, name))
Exists(store, name) == name \in DOMAIN store \/ name \in DirEntries

\* the extractor writes (creates or overwrites) one file
WriteFile(store, name, data) ==
    [n \in DOMAIN store \cup {name} |-> IF n = name THEN data ELSE store[n]]

\* what a fetch that wrote under extension w (or nothing) leaves in the store:
\* outtmpl is downloads/{video_id}.%(ext)s
AfterFetch(store, id, w, data) ==
    IF w = NothingWritten THEN store
    ELSE WriteFile(store, FileName(id, w), data)

\* the link built with a fixed extension
DownloadUrlMp4(id, ext) == <<BASE_URL, "/file/", id, ".", "mp4">>

\* line 100
DownloadUrl(id, ext) == <<BASE_URL, "/file/", id, ".", ext>>

\* every request given the same identifier
NewIdFixed(n) == 1

\* line 31: uuid.uuid4(), an identifier no other request has
NewId(n) == n

(* ------------------------------- state --------------------------------- *)

NoFileResponse == [name |-> <<0, "">>, status |-> 0, body |-> NoData]

IdleJob ==
    [pc |-> "idle", id |-> 0, ext |-> NoExt, duration |-> NoDuration,
     resp |-> NoResponse, calls |-> <<>>, sent |-> 0]

Init ==
    /\ jobs = [j \in Jobs |-> IdleJob]
    /\ fileStore = <<>>
    /\ nextId = 1
    /\ lastFile = NoFileResponse

\* the info dict of the extractor, as far as the handler reads it
Info(ext, duration) == [ext |-> ext, duration |-> duration]
NoInfo == Info(NoExt, NoDuration)

\* one call of the extractor: what it returned (info) or raised (msg)
Call(name, outcome, msg, info) ==
    [call |-> name, outcome |-> outcome, msg |-> msg, info |-> info]

\* the handler returns r; its locals are gone
Respond(job, r) ==
    [job EXCEPT !.pc = "done", !.resp = r, !.sent = @ + 1,
                !.ext = NoExt, !.duration = NoDuration]

(* ------------------------- /download, lines 29-105 --------------------- *)

\* lines 30-47: the request enters the handler and gets its identifier
Begin(j) ==
    /\ jobs[j].pc = "idle"
    /\ jobs' = [jobs EXCEPT ![j] = [@ EXCEPT !.pc = "probe", !.id = NewId(nextId)]]
    /\ nextId' = nextId + 1
    /\ UNCHANGED <<fileStore, lastFile>>

\* line 52 returns
ProbeOk(j) ==
    /\ jobs[j].pc = "probe"
    /\ jobs' = [jobs EXCEPT ![j] =
                  [@ EXCEPT !.pc = "fetch",
                            !.calls = Append(@, Call("probe", "ok", NoText, NoInfo))]]
    /\ UNCHANGED <<fileStore, nextId, lastFile>>

\* the probe's error logged and the handler carrying on to the fetch
AfterProbeErrorCarriesOn(job, e) == [job EXCEPT !.pc = "fetch"]

\* where the handler goes when the probe raised DownloadError(e): lines 53-66
AfterProbeError(job, e) == Respond(job, Classify(e))

\* line 52 raises yt_dlp.DownloadError(e)
ProbeDownloadError(j, e) ==
    /\ jobs[j].pc = "probe"
    /\ jobs' = [jobs EXCEPT ![j] =
                  AfterProbeError(
                      [@ EXCEPT !.calls = Append(@, Call("probe", "DownloadError", e, NoInfo))],
                      e)]
    /\ UNCHANGED <<fileStore, nextId, lastFile>>

\* line 52 raises an exception that is not a DownloadError: lines 103-105
ProbeOtherError(j, e) ==
    /\ jobs[j].pc = "probe"
    /\ jobs' = [jobs EXCEPT ![j] =
                  Respond([@ EXCEPT !.calls = Append(@, Call("probe", "Exception", e, NoInfo))],
                          Unexpected(e))]
    /\ UNCHANGED <<fileStore, nextId, lastFile>>

\* line 70 returns info with the given ext and duration, having written under w
FetchOk(j, ext, duration, w) ==
    /\ jobs[j].pc = "fetch"
    /\ fileStore' = AfterFetch(fileStore, jobs[j].id, w, Payload(j))
    /\ jobs' = [jobs EXCEPT ![j] =
                  [@ EXCEPT !.pc = "verify", !.ext = ext, !.duration = duration,
                            !.calls = Append(@, Call("fetch", "ok", NoText, Info(ext, duration)))]]
    /\ UNCHANGED <<nextId, lastFile>>

\* line 70 raises yt_dlp.DownloadError(e), having written under w: lines 71-72
FetchDownloadError(j, e, w) ==
    /\ jobs[j].pc = "fetch"
    /\ fileStore' = AfterFetch(fileStore, jobs[j].id, w, Payload(j))
    /\ jobs' = [jobs EXCEPT ![j] =
                  Respond([@ EXCEPT !.calls = Append(@, Call("fetch", "DownloadError", e, NoInfo))],
                          DownloadFailed(e))]
    /\ UNCHANGED <<nextId, lastFile>>

\* line 70 raises another exception, having written under w: lines 103-105
FetchOtherError(j, e, w) ==
    /\ jobs[j].pc = "fetch"
    /\ fileStore' = AfterFetch(fileStore, jobs[j].id, w, Payload(j))
    /\ jobs' = [jobs EXCEPT ![j] =
                  Respond([@ EXCEPT !.calls = Append(@, Call("fetch", "Exception", e, NoInfo))],
                          Unexpected(e))]
    /\ UNCHANGED <<nextId, lastFile>>

\* line 77: info.get("ext", "mp4")
ExtOf(job) == IF job.ext = NoExt THEN "mp4" ELSE job.ext

\* lines 89-101
DownloadResult(job) ==
    [status |-> 200, kind |-> "ok", detail |-> NoText, id |-> job.id,
     format |-> ExtOf(job), duration |-> FormatDuration(job.duration),
     downloadUrl |-> DownloadUrl(job.id, ExtOf(job))]

\* the response built without looking at what line 84 found
OutcomeUnverified(job, found) ==
    IF FormatRaises(job.duration) THEN Unexpected(FormatErrorMessage)
    ELSE DownloadResult(job)

\* lines 82-101 given what line 84 found
Outcome(job, found) ==
    IF ~found THEN FileMissing
    ELSE IF FormatRaises(job.duration) THEN Unexpected(FormatErrorMessage)
    ELSE DownloadResult(job)

\* lines 74-101: metadata, existence check, response
Finish(j) ==
    /\ jobs[j].pc = "verify"
    /\ jobs' = [jobs EXCEPT ![j] =
                  Respond(@, Outcome(@, Exists(fileStore, FileName(@.id, ExtOf(@)))))]
    /\ UNCHANGED <<fileStore, nextId, lastFile>>

(* ------------------------ /file/{filename}, lines 107-117 -------------- *)

\* FileResponse streams a regular file; for a path that is not a regular file
\* it raises while the response is sent, which the server answers with 500
FileResponse(store, name) ==
    IF name \in DOMAIN store
    THEN [name |-> name, status |-> 200, body |-> store[name]]
    ELSE [name |-> name, status |-> 500, body |-> NoData]

NotFound(name) == [name |-> name, status |-> 404, body |-> NoData]

get_file(filename) ==
    /\ lastFile' = IF Exists(fileStore, filename)
                   THEN FileResponse(fileStore, filename)
                   ELSE NotFound(filename)
    /\ UNCHANGED <<jobs, fileStore, nextId>>

\* the filenames a caller may ask for
Filenames == { FileName(i, x) : i \in Jobs, x \in FileExts } \cup DirEntries

(* ---------------------------- specifications --------------------------- *)

FewExts == { NoExt, "webm" }
FewDurations == { IntDuration(125) }
Written == FileExts \cup { NothingWritten }

\* several requests side by side
Next ==
    \/ \E j \in Jobs : Begin(j)
    \/ \E j \in Jobs : ProbeOk(j)
    \/ \E j \in Jobs, e \in FewMessages : ProbeDownloadError(j, e)
    \/ \E j \in Jobs, e \in OtherMessages : ProbeOtherError(j, e)
    \/ \E j \in Jobs, x \in FewExts, d \in FewDurations, w \in Written :
           FetchOk(j, x, d, w)
    \/ \E j \in Jobs, e \in FewMessages, w \in Written : FetchDownloadError(j, e, w)
    \/ \E j \in Jobs, e \in OtherMessages, w \in Written : FetchOtherError(j, e, w)
    \/ \E j \in Jobs : Finish(j)
    \/ \E f \in Filenames : get_file(f)

Spec == Init /\ [][Next]_vars

AllExts == FileExts \cup { NoExt }
AllDurations ==
    { NoDuration, FloatDuration } \cup { IntDuration(d) : d \in 0..MaxDuration }

\* one request, over every input of the extractor
NextJob ==
    \/ Begin(1)
    \/ ProbeOk(1)
    \/ /\ jobs[1].pc = "probe"
       /\ \E e \in Messages : ProbeDownloadError(1, e)
    \/ \E e \in OtherMessages : ProbeOtherError(1, e)
    \/ \E x \in AllExts, d \in AllDurations, w \in Written : FetchOk(1, x, d, w)
    \/ /\ jobs[1].pc = "fetch"
       /\ \E e \in Messages, w \in Written : FetchDownloadError(1, e, w)
    \/ \E e \in OtherMessages, w \in Written : FetchOtherError(1, e, w)
    \/ Finish(1)

SpecJob == Init /\ [][NextJob]_vars

(* ------------------------------- claims -------------------------------- *)

Done(j) == jobs[j].pc = "done"

\* the positions of the calls of the given kind in a job's trace
CallsOf(j, name) == { i \in DOMAIN jobs[j].calls : jobs[j].calls[i].call = name }

ProbeRaisedDownloadError(j) ==
    \E i \in CallsOf(j, "probe") : jobs[j].calls[i].outcome = "DownloadError"

\* C1: in every run of /download the fetch call is made at most once and only
\* right after a probe call that returned; when the probe raises DownloadError,
\* whatever its message, the handler answers 400 and never calls fetch.
C1_FetchOnlyAfterProbe ==
    \A j \in Jobs :
        /\ Cardinality(CallsOf(j, "fetch")) <= 1
        /\ \A i \in CallsOf(j, "fetch") :
               /\ i > 1
               /\ jobs[j].calls[i - 1].call = "probe"
               /\ jobs[j].calls[i - 1].outcome = "ok"
        /\ ProbeRaisedDownloadError(j) =>
               /\ Done(j)
               /\ jobs[j].resp.status = 400
               /\ CallsOf(j, "fetch") = {}

C1_Witness ==
    \E j \in Jobs :
        /\ Done(j)
        /\ jobs[j].calls = << Call("probe", "DownloadError", <<"timeout">>, NoInfo) >>
        /\ jobs[j].resp.status = 400

\* two words are the same up to letter case
SameWord(a, b) == a = b \/ <<a, b>> \in CasePairs \/ <<b, a>> \in CasePairs

\* the message holds the phrase, in any letter case
Mentions(e, phrase) ==
    \E i \in 1..Len(e) :
        /\ i + Len(phrase) - 1 <= Len(e)
        /\ \A k \in 1..Len(phrase) : SameWord(e[i + k - 1], phrase[k])

Row1(e) == Mentions(e, <<"private", "video">>) \/ Mentions(e, <<"sign", "in">>)
Row2(e) == Mentions(e, <<"video", "unavailable">>)
Row3(e) == Mentions(e, <<"live", "stream">>) /\ Mentions(e, <<"not", "available">>)
Row4(e) == Mentions(e, <<"age-restricted">>)

\* the category the table of the specification gives
TableKind(e) ==
    CASE Row1(e) -> "private"
      [] ~Row1(e) /\ Row2(e) -> "unavailable"
      [] ~Row1(e) /\ ~Row2(e) /\ Row3(e) -> "live"
      [] ~Row1(e) /\ ~Row2(e) /\ ~Row3(e) /\ Row4(e) -> "age"
      [] ~Row1(e) /\ ~Row2(e) /\ ~Row3(e) /\ ~Row4(e) -> "cannot_access"

\* C2: a probe-stage DownloadError is answered with the earliest matching row of
\* the table over the message in any letter case: private / sign in, then video
\* unavailable, then live stream and not available, then age-restricted, else the
\* generic "Cannot access this video" carrying the original message.
C2_FirstMatchWins ==
    \A j \in Jobs :
        (Done(j) /\ ProbeRaisedDownloadError(j)) =>
            LET e == jobs[j].calls[1].msg
            IN  /\ jobs[j].resp.status = 400
                /\ jobs[j].resp.kind = TableKind(e)
                /\ jobs[j].resp.detail =
                       IF TableKind(e) = "cannot_access" THEN e ELSE NoText

C2_Witness ==
    \E j \in Jobs :
        /\ Done(j)
        /\ ProbeRaisedDownloadError(j)
        /\ jobs[j].calls[1].msg = <<"AGE-RESTRICTED", "SIGN", "IN">>
        /\ jobs[j].resp.kind = "private"

FetchRaisedDownloadError(j) ==
    \E i \in CallsOf(j, "fetch") : jobs[j].calls[i].outcome = "DownloadError"

\* C3: when the probe succeeds and the fetch raises DownloadError, the answer is
\* 500 "Download failed: <message>" for every message, also one that holds a
\* phrase of the probe-stage table.
C3_FetchErrorIsGeneric ==
    \A j \in Jobs :
        FetchRaisedDownloadError(j) =>
            /\ Done(j)
            /\ jobs[j].calls[1].outcome = "ok"
            /\ jobs[j].resp.status = 500
            /\ jobs[j].resp.kind = "download_failed"
            /\ jobs[j].resp.detail = jobs[j].calls[2].msg

C3_Witness ==
    \E j \in Jobs :
        /\ FetchRaisedDownloadError(j)
        /\ jobs[j].calls[2].msg = <<"private", "video", "unavailable">>
        /\ jobs[j].resp.kind = "download_failed"

\* the extension the handler takes from what the fetch reported
ReportedExt(j) ==
    LET x == jobs[j].calls[2].info.ext
    IN  IF x = NoExt THEN "mp4" ELSE x

FetchReturned(j) ==
    /\ Len(jobs[j].calls) = 2
    /\ jobs[j].calls[1] = Call("probe", "ok", NoText, NoInfo)
    /\ jobs[j].calls[2].call = "fetch"
    /\ jobs[j].calls[2].outcome = "ok"

\* C4: a 200 DownloadResult is returned only when probe and fetch both returned
\* and downloads/{id}.{ext} exists, ext being the reported extension or mp4; when
\* that file is absent after a fetch that returned, the answer is the 500
\* "Download completed but file not found".
C4_ResultOnlyIfFileExists ==
    \A j \in Jobs :
        /\ jobs[j].resp.status = 200 =>
               /\ FetchReturned(j)
               /\ jobs[j].resp.format = ReportedExt(j)
               /\ FileName(jobs[j].id, ReportedExt(j)) \in DOMAIN fileStore
        /\ (Done(j) /\ FetchReturned(j)
                /\ FileName(jobs[j].id, ReportedExt(j)) \notin DOMAIN fileStore) =>
               /\ jobs[j].resp.status = 500
               /\ jobs[j].resp.kind = "file_missing"

C4_Witness ==
    \E j \in Jobs :
        /\ Done(j)
        /\ FetchReturned(j)
        /\ jobs[j].calls[2].info.ext = NoExt
        /\ DOMAIN fileStore = { FileName(jobs[j].id, "webm") }
        /\ jobs[j].resp.kind = "file_missing"

RaisedOther(j) ==
    \E i \in DOMAIN jobs[j].calls : jobs[j].calls[i].outcome = "Exception"

\* C9: a /download request is answered once, with 200, 400 or 500; 400 exactly
\* when the probe raised DownloadError; any other exception (in the probe, in
\* the fetch, or while the response is assembled) is answered with the 500
\* "An unexpected error occurred: <message>".
C9_StatusTaxonomy ==
    \A j \in Jobs :
        /\ jobs[j].sent = (IF Done(j) THEN 1 ELSE 0)
        /\ ~Done(j) => jobs[j].resp = NoResponse
        /\ Done(j) =>
               /\ jobs[j].resp.status \in { 200, 400, 500 }
               /\ jobs[j].resp.status = 400 <=> ProbeRaisedDownloadError(j)
               /\ RaisedOther(j) =>
                      /\ jobs[j].resp.status = 500
                      /\ jobs[j].resp.kind = "unexpected"
                      /\ jobs[j].resp.detail = jobs[j].calls[Len(jobs[j].calls)].msg
               /\ (FetchReturned(j) /\ jobs[j].calls[2].info.duration = FloatDuration
                       /\ FileName(jobs[j].id, ReportedExt(j)) \in DOMAIN fileStore) =>
                      /\ jobs[j].resp.status = 500
                      /\ jobs[j].resp.kind = "unexpected"

C9_Witness ==
    \E j \in Jobs :
        /\ Done(j)
        /\ FetchReturned(j)
        /\ jobs[j].calls[2].info.duration = FloatDuration
        /\ jobs[j].resp = ErrorResponse(500, "unexpected", FormatErrorMessage)

\* C10: on a successful run the duration field is floor(d/60), ":", and d mod 60
\* in two digits for every integer d >= 0 the extractor reports, and it is
\* "Unknown" only when the extractor reports no duration.
C10_DurationFormat ==
    \A j \in Jobs :
        jobs[j].resp.status = 200 =>
            LET d == jobs[j].calls[2].info.duration
            IN  /\ d.kind = "int" =>
                       jobs[j].resp.duration =
                           Str(d.v \div 60)
                               \o << ":", Digit((d.v % 60) \div 10), Digit((d.v % 60) % 10) >>
                /\ jobs[j].resp.duration = <<"Unknown">> => d = NoDuration

\* the files of the store named with the identifier of job j
FilesOf(j) == { n \in DOMAIN fileStore : n[1] = jobs[j].id }

\* C5: after a /download job has finished the store holds exactly one file named
\* with its identifier if it answered 200 and none if it answered with an error,
\* whatever the extractor did.
C5_OneArtifactOrNone ==
    \A j \in Jobs :
        Done(j) =>
            Cardinality(FilesOf(j)) = (IF jobs[j].resp.status = 200 THEN 1 ELSE 0)

\* C6: on a successful run downloadUrl is BASE_URL, "/file/", the identifier of
\* this run (also the "id" field), ".", and the extension (also the "format"
\* field) of the file found on disk; it names no other job's identifier.
C6_UrlNamesVerifiedFile ==
    \A j \in Jobs :
        jobs[j].resp.status = 200 =>
            /\ jobs[j].resp.id = jobs[j].id
            /\ jobs[j].resp.format = ReportedExt(j)
            /\ jobs[j].resp.downloadUrl =
                   << BASE_URL, "/file/", jobs[j].id, ".", ReportedExt(j) >>
            /\ FileName(jobs[j].resp.downloadUrl[3], jobs[j].resp.downloadUrl[5])
                   \in DOMAIN fileStore
            /\ \A k \in Jobs \ {j} : jobs[k].id # jobs[j].resp.downloadUrl[3]

C6_Witness ==
    \E j \in Jobs : \E k \in Jobs \ {j} :
        /\ jobs[j].resp.status = 200
        /\ jobs[j].resp.format = "webm"
        /\ jobs[k].resp.status = 200
        /\ jobs[k].resp.format = "mp4"

\* the file a finished job issued a link for
IssuedName(j) == FileName(jobs[j].resp.id, jobs[j].resp.format)

\* C7: under any interleaving of jobs and file requests, once job J has answered
\* 200, GET /file/{J.id}.{J.ext} answers 200 with the bytes J's fetch wrote; no
\* step overwrites that file, and no step removes a file from the store.
C7_IssuedFileStays ==
    /\ [](\A j \in Jobs :
              jobs[j].resp.status = 200 =>
                  /\ IssuedName(j) \in DOMAIN fileStore
                  /\ fileStore[IssuedName(j)] = Payload(j)
                  /\ FileResponse(fileStore, IssuedName(j)) =
                         [name |-> IssuedName(j), status |-> 200, body |-> Payload(j)]
                  /\ lastFile.name = IssuedName(j) =>
                         \/ lastFile.status = 404
                         \/ lastFile.status = 200 /\ lastFile.body = Payload(j))
    /\ [][/\ DOMAIN fileStore \subseteq DOMAIN fileStore'
          /\ \A j \in Jobs :
                 (jobs[j].resp.status = 200 /\ lastFile' # lastFile
                      /\ lastFile'.name = IssuedName(j)) =>
                     (lastFile'.status = 200 /\ lastFile'.body = Payload(j))]_vars

C7_Witness ==
    \E j \in Jobs : \E k \in Jobs \ {j} :
        /\ jobs[j].resp.status = 200
        /\ lastFile = [name |-> IssuedName(j), status |-> 200, body |-> Payload(j)]
        /\ Done(k)
        /\ FilesOf(k) # {}

\* C8: GET /file/{filename} for a filename under which the store holds no file
\* answers 404 "File not found", never 500 or 200.
C8_UnknownFileIs404 ==
    (lastFile.status # 0 /\ lastFile.name \notin DOMAIN fileStore) =>
        lastFile.status = 404

====
